---- MODULE Spec2Model ----
(***************************************************************************)
(* A model of env_logger_timezone_fmt (src/src/lib.rs, src/src/main.rs).   *)
(*                                                                         *)
(* TimeZoneFormatEnv is the policy built once by TimeZoneFormatEnv::new    *)
(* and shared read-only; TimeZoneFormat is the per-event renderer whose    *)
(* write(record) emits  [timestamp level module target] body suffix  into  *)
(* the host's Formatter.  Text is modelled as a sequence of one-character  *)
(* strings; a style escape sequence is one element of such a sequence.     *)
(* Option<T> is modelled as a sequence: None is << >>, Some(v) is <<v>>.   *)
(***************************************************************************)
EXTENDS Integers, Sequences, FiniteSets, TLC

(* ---------------------------- bounds ----------------------------------- *)
\* Number of host threads that may render at the same time.
NRenderers == 2
\* Longest message drawn for the body transformation.
MaxMsgLen == 3

Renderers == 1..NRenderers

None == << >>
Some(v) == <<v>>

(* ------------------------- text helpers -------------------------------- *)
Spaces(n) == [i \in 1..n |-> " "]

DigitChars == <<"0", "1", "2", "3", "4", "5", "6", "7", "8", "9">>

RECURSIVE Digits(_, _)
\* n written in decimal, zero padded to w digits ({:0w}).
Digits(n, w) == IF w = 0 THEN << >>
                ELSE Append(Digits(n \div 10, w - 1), DigitChars[(n % 10) + 1])

RECURSIVE Concat(_)
Concat(ss) == IF ss = << >> THEN << >> ELSE Head(ss) \o Concat(Tail(ss))

(* ----------------------- lib.rs constants ------------------------------ *)
\* A strftime pattern is the sequence of its items.
DATETIME_FMT_SECOND ==
    <<"%Y", "-", "%m", "-", "%d", " ", "%H", ":", "%M", ":", "%S", " ", "%:z">>
DATETIME_FMT_3F ==
    <<"%Y", "-", "%m", "-", "%d", " ", "%H", ":", "%M", ":", "%S", "%.3f", " ", "%:z">>
DATETIME_FMT_6F ==
    <<"%Y", "-", "%m", "-", "%d", " ", "%H", ":", "%M", ":", "%S", "%.6f", " ", "%:z">>

(* ------------------- TimeZoneFormatEnv::new ---------------------------- *)
\* FixedOffset::east_opt: Some(secs) strictly inside one day, None otherwise.
east_opt_le(secs) ==
    IF -86400 <= secs /\ secs <= 86400 THEN Some(secs) ELSE None

east_opt(secs) ==
    IF -86400 < secs /\ secs < 86400 THEN Some(secs) ELSE None

\* unwrap_or on an Option.
unwrap_or(opt, dflt) == IF opt # None THEN opt[1] ELSE dflt

\* The mutant of new: an absent precision selects the seconds pattern.
new_absent_seconds(offset_value, timestamp_precision, local_now) ==
    [ datetime_fmt |->
          IF timestamp_precision # None
          THEN CASE timestamp_precision[1] = "Seconds" -> DATETIME_FMT_SECOND
                 [] timestamp_precision[1] = "Millis"  -> DATETIME_FMT_3F
                 [] timestamp_precision[1] = "Micros"  -> DATETIME_FMT_6F
                 [] timestamp_precision[1] = "Nanos"   -> DATETIME_FMT_6F
          ELSE DATETIME_FMT_SECOND,
      offset |->
          IF offset_value # None
          THEN unwrap_or(east_opt(offset_value[1]), local_now)
          ELSE local_now,
      module_path |-> FALSE,
      target |-> TRUE,
      level |-> TRUE,
      indent |-> Some(4),
      suffix |-> <<"\n">> ]

\* local_now is Local::now().offset().fix() at the moment of the call.
new(offset_value, timestamp_precision, local_now) ==
    [ datetime_fmt |->
          IF timestamp_precision # None
          THEN CASE timestamp_precision[1] = "Seconds" -> DATETIME_FMT_SECOND
                 [] timestamp_precision[1] = "Millis"  -> DATETIME_FMT_3F
                 [] timestamp_precision[1] = "Micros"  -> DATETIME_FMT_6F
                 [] timestamp_precision[1] = "Nanos"   -> DATETIME_FMT_6F
          ELSE DATETIME_FMT_3F,
      offset |->
          IF offset_value # None
          THEN unwrap_or(east_opt(offset_value[1]), local_now)
          ELSE local_now,
      module_path |-> FALSE,
      target |-> TRUE,
      level |-> TRUE,
      indent |-> Some(4),
      suffix |-> <<"\n">> ]

(* ------------------ chrono formatting of the timestamp ----------------- *)
\* An instant is [day, secs, nanos]: a day of January 2024 (UTC), the second
\* of that day and the nanosecond of that second.
\* The instants drawn keep the local date within January 2024 for every
\* valid offset.
\* %:z : sign, hours, colon, minutes; chrono rounds an offset that is not a
\* whole number of minutes to the nearest minute.
FormatOffset(off) ==
    LET a       == IF off < 0 THEN -off ELSE off
        minutes == (a + 30) \div 60
    IN  <<IF off < 0 THEN "-" ELSE "+">> \o Digits(minutes \div 60, 2)
          \o <<":">> \o Digits(minutes % 60, 2)

FormatItem(item, t, offset) ==
    LET local == t.secs + offset
        day   == t.day + (local \div 86400)
        sod   == local % 86400
    IN  CASE item = "%Y"   -> Digits(2024, 4)
          [] item = "%m"   -> Digits(1, 2)
          [] item = "%d"   -> Digits(day, 2)
          [] item = "%H"   -> Digits(sod \div 3600, 2)
          [] item = "%M"   -> Digits((sod \div 60) % 60, 2)
          [] item = "%S"   -> Digits(sod % 60, 2)
          [] item = "%.3f" -> <<".">> \o Digits(t.nanos \div 1000000, 3)
          [] item = "%.6f" -> <<".">> \o Digits(t.nanos \div 1000, 6)
          [] item = "%:z"  -> FormatOffset(offset)
          [] OTHER         -> <<item>>

\* DateTime::<Utc>::from(t).with_timezone(&offset).format(fmt)
FormatDateTime(t, offset, fmt) ==
    Concat([i \in 1..Len(fmt) |-> FormatItem(fmt[i], t, offset)])

(* ------------------------- level and style ----------------------------- *)
\* Level::as_str
LevelStr(level) ==
    CASE level = "Error" -> <<"E", "R", "R", "O", "R">>
      [] level = "Warn"  -> <<"W", "A", "R", "N">>
      [] level = "Info"  -> <<"I", "N", "F", "O">>
      [] level = "Debug" -> <<"D", "E", "B", "U", "G">>
      [] level = "Trace" -> <<"T", "R", "A", "C", "E">>

\* Formatter::default_level_style: a colour per level when the sink has
\* styling, the plain style otherwise.
default_level_style(level, styled) ==
    IF ~styled THEN "plain"
    ELSE CASE level = "Error" -> "<red>"
           [] level = "Warn"  -> "<yellow>"
           [] level = "Info"  -> "<green>"
           [] level = "Debug" -> "<blue>"
           [] level = "Trace" -> "<cyan>"

StyleMarkers == {"<red>", "<yellow>", "<green>", "<blue>", "<cyan>", "<reset>"}

\* {:<w}: left aligned, padded with spaces to w columns, never truncated.
PadLeft4(s, w) == IF Len(s) < w - 1 THEN s \o Spaces(w - 1 - Len(s)) ELSE s

PadLeft(s, w) == IF Len(s) < w THEN s \o Spaces(w - Len(s)) ELSE s

\* StyledValue::fmt under {:<5}: start marker, padded value, reset marker;
\* the plain style renders both markers as nothing.
StyledValue(style, value, width) ==
    (IF style = "plain" THEN << >> ELSE <<style>>)
      \o PadLeft(value, width)
      \o (IF style = "plain" THEN << >> ELSE <<"<reset>">>)

(* ------------------- TimeZoneFormat: the steps of write ---------------- *)
\* A step is [flag, out, wrote]: the header-started flag after the step, the
\* text it hands to the sink, and whether it wrote a header field.
Skip(flag) == [flag |-> flag, out |-> << >>, wrote |-> FALSE]

\* The mutant of write_header_value: the flag is never set.
write_header_value_noflag(flag, value) ==
    [flag |-> flag, out |-> <<"[">> \o value, wrote |-> TRUE]

\* The mutant of write_header_value: every field opens a bracket.
write_header_value_bracket(flag, value) ==
    [flag |-> TRUE, out |-> <<"[">> \o value, wrote |-> TRUE]

write_header_value(flag, value) ==
    IF ~flag
    THEN [flag |-> TRUE, out |-> <<"[">> \o value, wrote |-> TRUE]
    ELSE [flag |-> flag, out |-> <<" ">> \o value, wrote |-> TRUE]

write_timestamp(e, flag, t) ==
    write_header_value(flag, FormatDateTime(t, e.offset, e.datetime_fmt))

write_level(e, flag, rec, sty) ==
    IF ~e.level THEN Skip(flag)
    ELSE write_header_value(flag,
             StyledValue(default_level_style(rec.level, sty), LevelStr(rec.level), 5))

write_module_path(e, flag, rec) ==
    IF ~e.module_path THEN Skip(flag)
    ELSE IF rec.module_path # None
         THEN write_header_value(flag, rec.module_path[1])
         ELSE Skip(flag)

\* The mutant of write_target: an empty target is written like any other.
write_target_empty(e, flag, rec) ==
    IF ~e.target THEN Skip(flag)
    ELSE write_header_value(flag, rec.target)

write_target(e, flag, rec) ==
    IF ~e.target THEN Skip(flag)
    ELSE IF rec.target = << >> THEN Skip(flag)
         ELSE write_header_value(flag, rec.target)

\* The mutant of finish_header: the bracket is closed without the space.
finish_header_nospace(flag) ==
    IF flag THEN <<"]">> ELSE << >>

finish_header(flag) ==
    IF flag THEN <<"]", " ">> ELSE << >>

RECURSIVE SplitLF(_)
\* buf.split(|&x| x == b'\n'): k line feeds give k + 1 chunks, some empty.
SplitLF(b) ==
    IF \E i \in 1..Len(b) : b[i] = "\n"
    THEN LET i == CHOOSE i \in 1..Len(b) :
                      b[i] = "\n" /\ \A j \in 1..(i-1) : b[j] # "\n"
         IN  <<SubSeq(b, 1, i - 1)>> \o SplitLF(SubSeq(b, i + 1, Len(b)))
    ELSE <<b>>

RECURSIVE IndentLoop(_, _, _, _)
\* The for loop of IndentWrapper::write over the chunks still to write.
IndentLoop(chunks, first, suffix, indent_count) ==
    IF chunks = << >> THEN << >>
    ELSE (IF ~first THEN suffix \o Spaces(indent_count) ELSE << >>)
           \o Head(chunks)
           \o IndentLoop(Tail(chunks), FALSE, suffix, indent_count)

\* The mutant of IndentWrapper::write: the first chunk is indented too.
IndentWrapperWrite_nofirst(b, suffix, indent_count) ==
    IndentLoop(SplitLF(b), FALSE, suffix, indent_count)

\* One call of IndentWrapper::write(buf): what reaches the sink.
IndentWrapperWrite(b, suffix, indent_count) ==
    IndentLoop(SplitLF(b), TRUE, suffix, indent_count)

\* record.args() reaches the writer as a sequence of pieces, one write call
\* each (the literal parts and the arguments of the format string).
write_args(e, rec) ==
    IF e.indent = None
    THEN Concat(rec.args)
    ELSE Concat([i \in 1..Len(rec.args) |->
                    IndentWrapperWrite(rec.args[i], e.suffix, e.indent[1])])

\* TimeZoneFormat::new(buf, env).write(record) when every write succeeds:
\* the whole line, the flag threaded from step to step.
write(e, rec, t, sty) ==
    LET s1 == write_timestamp(e, FALSE, t)
        s2 == write_level(e, s1.flag, rec, sty)
        s3 == write_module_path(e, s2.flag, rec)
        s4 == write_target(e, s3.flag, rec)
    IN  s1.out \o s2.out \o s3.out \o s4.out \o finish_header(s4.flag)
          \o write_args(e, rec) \o e.suffix

(* ------------------------- the records logged -------------------------- *)
Txt_net == <<"n", "e", "t">>
Txt_app == <<"a", "p", "p">>
Txt_connecting == <<"c", "o", "n", "n", "e", "c", "t", "i", "n", "g", "\n", "r", "e", "t", "r", "y", " ">>

ScenarioRecord ==
    [level |-> "Info", module_path |-> Some(Txt_app), target |-> Txt_net,
     args |-> <<Txt_connecting, <<"1">>>>]
ScenarioRecordWhole ==
    [level |-> "Info", module_path |-> Some(Txt_app), target |-> Txt_net,
     args |-> <<Txt_connecting \o <<"1">>>>]
\* log::info!("1") of main: the target defaults to the module path.
MainRecord ==
    [level |-> "Info", module_path |-> Some(Txt_app), target |-> Txt_app,
     args |-> <<<<"1">>>>]

\* Every kind of record for the header.
HeaderRecords ==
    {[level |-> l, module_path |-> m, target |-> t, args |-> <<<<"o", "k">>>>] :
        l \in {"Info", "Error"}, m \in {None, Some(Txt_app)}, t \in {<< >>, Txt_net}}

\* Every message up to MaxMsgLen, cut into write calls in every way.
BodyChars == {"a", "\n"}

RECURSIVE Messages(_)
Messages(n) ==
    IF n = 0 THEN {<< >>}
    ELSE Messages(n - 1) \cup
         {Append(m, c) : m \in {x \in Messages(n - 1) : Len(x) = n - 1}, c \in BodyChars}

RECURSIVE Splits(_)
\* The ways to cut s into non-empty pieces.
Splits(s) ==
    IF s = << >> THEN {<< >>}
    ELSE UNION {{<<SubSeq(s, 1, k)>> \o rest : rest \in Splits(SubSeq(s, k + 1, Len(s)))} :
                   k \in 1..Len(s)}

BodyRecords ==
    {[level |-> "Warn", module_path |-> None, target |-> Txt_net, args |-> a] :
        a \in UNION {Splits(m) : m \in Messages(MaxMsgLen)}}

\* Two unlike records for threads that render side by side.
SharedRecords ==
    {ScenarioRecord,
     [level |-> "Error", module_path |-> None, target |-> << >>,
      args |-> <<<<"a", "\n">>, <<"b">>>>]}

\* The records a workload logs.
RecordSet(workload) ==
    CASE workload = "main"   -> {ScenarioRecord, ScenarioRecordWhole, MainRecord}
      [] workload = "policy" -> {MainRecord}
      [] workload = "header" -> HeaderRecords
      [] workload = "body"   -> BodyRecords
      [] workload = "shared" -> SharedRecords

(* ----------------------------- state ----------------------------------- *)
VARIABLES
    env,                   \* the TimeZoneFormatEnv (None before new)
    envShared,             \* its value when it was put behind the Arc
    phase,                 \* "start", "constructed", "shared"
    local,                 \* the machine's local UTC offset now
    localAtNew,            \* the machine's local UTC offset when new ran
    input,                 \* the arguments of new and the field settings
    styled,                \* whether the Formatter renders styles
    active,                \* the host threads that log
    faulty,                \* faulty[r]: the sink of r may refuse a write
    recs,                  \* the workload: which records the program logs
    pc,                    \* pc[r]: the step of write that r runs next
    record,                \* record[r]: the record r renders
    written_header_value,  \* written_header_value[r]: the flag of r's renderer
    buf,                   \* buf[r]: what r's sink has received for this event
    now,                   \* now[r]: SystemTime::now() read by write_timestamp
    result,                \* result[r]: what write returned
    sinkErr,               \* sinkErr[r]: the error r's sink raised
    written,               \* written[r]: the header fields written, in order
    hdrEnd                 \* hdrEnd[r]: length of buf[r] after finish_header

globals == <<env, envShared, phase, local, localAtNew, input, styled, active,
             faulty, recs>>
vars == <<env, envShared, phase, local, localAtNew, input, styled, active,
          faulty, recs, pc, record, written_header_value, buf, now, result,
          sinkErr, written, hdrEnd>>

LocalOffsets == {3600, 7200}
IoErrors == {"BrokenPipe", "StorageFull"}
\* What the wall clock may show: early and late on 2 January 2024 (UTC).
Instants == { [day |-> 2, secs |-> 5, nanos |-> 7000],
              [day |-> 2, secs |-> 86399, nanos |-> 999999999] }

(* -------------------------- the policy --------------------------------- *)
\* let env = TimeZoneFormatEnv::new(offset_value, timestamp_precision)
NewEnv ==
    /\ phase = "start"
    /\ env' = new(input.offset_value, input.timestamp_precision, local)
    /\ localAtNew' = Some(local)
    /\ phase' = "constructed"
    /\ UNCHANGED <<envShared, local, input, styled, active, faulty, recs, pc,
                   record, written_header_value, buf, now, result, sinkErr,
                   written, hdrEnd>>

\* The owner sets the public fields, then shares the policy (Arc::new).
Configure ==
    /\ phase = "constructed"
    /\ env' = [env EXCEPT !.module_path = input.module_path,
                          !.target = input.target,
                          !.level = input.level,
                          !.indent = input.indent,
                          !.suffix = input.suffix]
    /\ envShared' = env'
    /\ phase' = "shared"
    /\ UNCHANGED <<local, localAtNew, input, styled, active, faulty, recs, pc,
                   record, written_header_value, buf, now, result, sinkErr,
                   written, hdrEnd>>

\* The machine's local offset changes (a DST transition).
LocalOffsetChange ==
    /\ \E o \in LocalOffsets \ {local} : local' = o
    /\ UNCHANGED <<env, envShared, phase, localAtNew, input, styled, active,
                   faulty, recs, pc, record, written_header_value, buf, now,
                   result, sinkErr, written, hdrEnd>>

(* -------------------------- the renderer ------------------------------- *)
\* The mutant of SinkWrite: a refused write is ignored and write goes on.
SinkWriteSwallow(r, out, next) ==
    \E j \in 0..Len(out) :
        /\ (j < Len(out)) => faulty[r]
        /\ buf' = [buf EXCEPT ![r] = @ \o SubSeq(out, 1, j)]
        /\ pc' = [pc EXCEPT ![r] = next]
        /\ IF j = Len(out)
           THEN /\ result' = [result EXCEPT ![r] = IF next = "done" THEN "Ok" ELSE @]
                /\ sinkErr' = sinkErr
           ELSE \E err \in IoErrors :
                /\ result' = [result EXCEPT ![r] = IF next = "done" THEN "Ok" ELSE @]
                /\ sinkErr' = [sinkErr EXCEPT ![r] = err]

\* write!(self.buf, ..)? : the sink takes the text, or refuses after j
\* characters and the error is returned at once ("?").  The last step of
\* write returns the sink's own result.
SinkWrite(r, out, next) ==
    \E j \in 0..Len(out) :
        /\ (j < Len(out)) => faulty[r]
        /\ buf' = [buf EXCEPT ![r] = @ \o SubSeq(out, 1, j)]
        /\ IF j = Len(out)
           THEN /\ pc' = [pc EXCEPT ![r] = next]
                /\ result' = [result EXCEPT ![r] = IF next = "done" THEN "Ok" ELSE @]
                /\ sinkErr' = sinkErr
           ELSE \E err \in IoErrors :
                /\ pc' = [pc EXCEPT ![r] = "failed"]
                /\ result' = [result EXCEPT ![r] = err]
                /\ sinkErr' = [sinkErr EXCEPT ![r] = err]

\* A header step: the flag and the list of fields follow the step, the text
\* goes to the sink.
HeaderStep(r, s, field, next) ==
    /\ written_header_value' = [written_header_value EXCEPT ![r] = s.flag]
    /\ written' = [written EXCEPT ![r] = IF s.wrote THEN Append(@, field) ELSE @]
    /\ SinkWrite(r, s.out, next)

\* The mutant of NewFormat: the renderer of the previous event is reused.
NewFormatReuse(r) ==
    /\ phase = "shared"
    /\ r \in active
    /\ pc[r] \in {"idle", "done", "failed"}
    /\ \E rec \in RecordSet(recs) : record' = [record EXCEPT ![r] = Some(rec)]
    /\ pc' = [pc EXCEPT ![r] = "write_timestamp"]
    /\ buf' = [buf EXCEPT ![r] = << >>]
    /\ now' = [now EXCEPT ![r] = None]
    /\ result' = [result EXCEPT ![r] = "none"]
    /\ sinkErr' = [sinkErr EXCEPT ![r] = "none"]
    /\ written' = [written EXCEPT ![r] = << >>]
    /\ hdrEnd' = [hdrEnd EXCEPT ![r] = 0]
    /\ UNCHANGED <<written_header_value>>
    /\ UNCHANGED globals

\* The format closure of main: TimeZoneFormat::new(buf, &timezone_fmt) on
\* the host's cleared buffer, for the next record of thread r.
NewFormat(r) ==
    /\ phase = "shared"
    /\ r \in active
    /\ pc[r] \in {"idle", "done", "failed"}
    /\ \E rec \in RecordSet(recs) : record' = [record EXCEPT ![r] = Some(rec)]
    /\ pc' = [pc EXCEPT ![r] = "write_timestamp"]
    /\ written_header_value' = [written_header_value EXCEPT ![r] = FALSE]
    /\ buf' = [buf EXCEPT ![r] = << >>]
    /\ now' = [now EXCEPT ![r] = None]
    /\ result' = [result EXCEPT ![r] = "none"]
    /\ sinkErr' = [sinkErr EXCEPT ![r] = "none"]
    /\ written' = [written EXCEPT ![r] = << >>]
    /\ hdrEnd' = [hdrEnd EXCEPT ![r] = 0]
    /\ UNCHANGED globals

WriteTimestamp(r) ==
    /\ pc[r] = "write_timestamp"
    /\ \E t \in Instants :
        /\ now' = [now EXCEPT ![r] = Some(t)]
        /\ HeaderStep(r, write_timestamp(env, written_header_value[r], t),
                      "timestamp", "write_level")
    /\ UNCHANGED <<record, hdrEnd>>
    /\ UNCHANGED globals

WriteLevel(r) ==
    /\ pc[r] = "write_level"
    /\ HeaderStep(r, write_level(env, written_header_value[r], record[r][1], styled),
                  "level", "write_module_path")
    /\ UNCHANGED <<record, now, hdrEnd>>
    /\ UNCHANGED globals

WriteModulePath(r) ==
    /\ pc[r] = "write_module_path"
    /\ HeaderStep(r, write_module_path(env, written_header_value[r], record[r][1]),
                  "module_path", "write_target")
    /\ UNCHANGED <<record, now, hdrEnd>>
    /\ UNCHANGED globals

WriteTarget(r) ==
    /\ pc[r] = "write_target"
    /\ HeaderStep(r, write_target(env, written_header_value[r], record[r][1]),
                  "target", "finish_header")
    /\ UNCHANGED <<record, now, hdrEnd>>
    /\ UNCHANGED globals

FinishHeader(r) ==
    /\ pc[r] = "finish_header"
    /\ SinkWrite(r, finish_header(written_header_value[r]), "write_args")
    /\ hdrEnd' = [hdrEnd EXCEPT ![r] = IF pc'[r] = "write_args" THEN Len(buf'[r]) ELSE @]
    /\ UNCHANGED <<record, written_header_value, now, written>>
    /\ UNCHANGED globals

WriteArgs(r) ==
    /\ pc[r] = "write_args"
    /\ SinkWrite(r, write_args(env, record[r][1]), "write_suffix")
    /\ UNCHANGED <<record, written_header_value, now, written, hdrEnd>>
    /\ UNCHANGED globals

WriteSuffix(r) ==
    /\ pc[r] = "write_suffix"
    /\ SinkWrite(r, env.suffix, "done")
    /\ UNCHANGED <<record, written_header_value, now, written, hdrEnd>>
    /\ UNCHANGED globals

Next ==
    \/ NewEnv
    \/ Configure
    \/ LocalOffsetChange
    \/ \E r \in Renderers : NewFormat(r)
    \/ \E r \in Renderers : WriteTimestamp(r)
    \/ \E r \in Renderers : WriteLevel(r)
    \/ \E r \in Renderers : WriteModulePath(r)
    \/ \E r \in Renderers : WriteTarget(r)
    \/ \E r \in Renderers : FinishHeader(r)
    \/ \E r \in Renderers : WriteArgs(r)
    \/ \E r \in Renderers : WriteSuffix(r)

(* ---------------------- initial states --------------------------------- *)
\* The field values new gives a policy.
DefaultFields ==
    [module_path |-> FALSE, target |-> TRUE, level |-> TRUE,
     indent |-> Some(4), suffix |-> <<"\n">>]

MakeInput(offset_value, timestamp_precision, f) ==
    [offset_value |-> offset_value, timestamp_precision |-> timestamp_precision,
     module_path |-> f.module_path, target |-> f.target, level |-> f.level,
     indent |-> f.indent, suffix |-> f.suffix]

\* Before the policy exists no thread renders.
InitWith(Inputs, Locals, Styles, Actives, Faulties, Workloads) ==
    /\ env = None
    /\ envShared = None
    /\ phase = "start"
    /\ local \in Locals
    /\ localAtNew = None
    /\ input \in Inputs
    /\ styled \in Styles
    /\ active \in Actives
    /\ faulty \in Faulties
    /\ recs \in Workloads
    /\ pc = [r \in Renderers |-> "idle"]
    /\ record = [r \in Renderers |-> None]
    /\ written_header_value = [r \in Renderers |-> FALSE]
    /\ buf = [r \in Renderers |-> << >>]
    /\ now = [r \in Renderers |-> None]
    /\ result = [r \in Renderers |-> "none"]
    /\ sinkErr = [r \in Renderers |-> "none"]
    /\ written = [r \in Renderers |-> << >>]
    /\ hdrEnd = [r \in Renderers |-> 0]

OnlyFirst == {{1}}
Reliable == {[r \in Renderers |-> FALSE]}
FirstMayFail == {[r \in Renderers |-> r = 1]}

\* main.rs: offset 8 h, millisecond precision, the fields as new sets them.
MainInput == MakeInput(Some(8 * 60 * 60), Some("Millis"), DefaultFields)

Init ==
    InitWith({MainInput}, LocalOffsets, BOOLEAN, OnlyFirst,
             Reliable \cup FirstMayFail,
             {"main"})

Spec == Init /\ [][Next]_vars

(* Policy construction: every kind of offset argument and precision. *)
OffsetArgs ==
    {None, Some(-90000), Some(-86400), Some(-86399), Some(-18000), Some(0),
     Some(28800), Some(86399), Some(86400)}
PrecisionArgs ==
    {None, Some("Seconds"), Some("Millis"), Some("Micros"), Some("Nanos")}

InitPolicy ==
    InitWith({MakeInput(o, p, DefaultFields) : o \in OffsetArgs, p \in PrecisionArgs},
             LocalOffsets, {FALSE}, OnlyFirst, Reliable, {"policy"})

SpecPolicy == InitPolicy /\ [][Next]_vars

(* The header: every setting of the toggles, every kind of record. *)
ToggleFields ==
    {[DefaultFields EXCEPT !.level = l, !.module_path = m, !.target = t] :
        l \in BOOLEAN, m \in BOOLEAN, t \in BOOLEAN}

InitHeader ==
    InitWith({MakeInput(Some(28800), Some("Seconds"), f) : f \in ToggleFields},
             {3600}, BOOLEAN, OnlyFirst, FirstMayFail, {"header"})

SpecHeader == InitHeader /\ [][Next]_vars

(* The body: every message up to MaxMsgLen, every way to cut it in pieces. *)
BodyFields ==
    {[DefaultFields EXCEPT !.indent = i, !.suffix = x] :
        i \in {None, Some(0), Some(2)}, x \in {<<"\n">>, <<"\r", "\n">>}}

InitBody ==
    InitWith({MakeInput(None, None, f) : f \in BodyFields},
             {3600}, {FALSE}, OnlyFirst, Reliable, {"body"})

SpecBody == InitBody /\ [][Next]_vars

(* Sharing: every host thread renders, all from the one policy. *)
InitShared ==
    InitWith({MakeInput(Some(28800), Some("Seconds"),
                        [DefaultFields EXCEPT !.module_path = m]) : m \in BOOLEAN},
             {3600}, {TRUE}, {Renderers}, Reliable, {"shared"})

SpecShared == InitShared /\ [][Next]_vars

(* ======================= the claims ==================================== *)
Rec(r) == record[r][1]
Clock(r) == now[r][1]

\* The timestamp text of r's render, from the policy as it was shared.
TimestampText(r) ==
    FormatDateTime(Clock(r), envShared.offset, envShared.datetime_fmt)

LevelText(r) ==
    StyledValue(default_level_style(Rec(r).level, styled), LevelStr(Rec(r).level), 5)

\* The text without the style escape sequences.
Unstyled(s) == SelectSeq(s, LAMBDA c : c \notin StyleMarkers)

Count(s, c) == Cardinality({i \in 1..Len(s) : s[i] = c})

RECURSIVE JoinSp(_)
\* The fields, one space between neighbours.
JoinSp(fs) ==
    IF fs = << >> THEN << >>
    ELSE IF Len(fs) = 1 THEN fs[1]
    ELSE fs[1] \o <<" ">> \o JoinSp(Tail(fs))

RECURSIVE MapLF(_, _)
\* The message with every line feed replaced by the block.
MapLF(msg, block) ==
    IF msg = << >> THEN << >>
    ELSE (IF Head(msg) = "\n" THEN block ELSE <<Head(msg)>>) \o MapLF(Tail(msg), block)

\* The body the spec describes for a message under a policy.
ExpectedBody(e, msg) ==
    IF e.indent = None THEN msg ELSE MapLF(msg, e.suffix \o Spaces(e.indent[1]))

HeaderClosed(r) == pc[r] \in {"write_args", "write_suffix", "done"}

\* The header fields the spec expects, as [name, text], in the fixed order.
ExpectedFields(r) ==
    <<[name |-> "timestamp", text |-> TimestampText(r)]>>
    \o (IF envShared.level
        THEN <<[name |-> "level", text |-> LevelText(r)]>> ELSE << >>)
    \o (IF envShared.module_path /\ Rec(r).module_path # None
        THEN <<[name |-> "module_path", text |-> Rec(r).module_path[1]]>> ELSE << >>)
    \o (IF envShared.target /\ Rec(r).target # << >>
        THEN <<[name |-> "target", text |-> Rec(r).target]>> ELSE << >>)

Header(r) == SubSeq(buf[r], 1, hdrEnd[r])

HeaderHasShape(r) ==
    LET fs == ExpectedFields(r)
    IN  /\ Header(r) = <<"[">> \o JoinSp([i \in 1..Len(fs) |-> fs[i].text]) \o <<"]", " ">>
        /\ written[r] = [i \in 1..Len(fs) |-> fs[i].name]
        /\ Count(Header(r), "[") = 1
        /\ Count(Header(r), "]") = 1

\* C1 as stated: the header is "[f1 f2 .. fN] " with the fields in the order
\* timestamp, level, module path, target, one '[' only, and the character
\* before the ']' is never a space.
C1_Original ==
    \A r \in Renderers : HeaderClosed(r) =>
        /\ HeaderHasShape(r)
        /\ Header(r)[hdrEnd[r] - 2] # " "

\* C1 (amended): the header is "[f1 f2 .. fN] " with the fields in the order
\* timestamp, level, module path, target and one '[' only; nothing is written
\* between the last field and the ']', so the character before the ']' is
\* the last character of the last field, which is a padding space when that
\* field is an unstyled level name shorter than five characters.
C1_HeaderShape ==
    \A r \in Renderers : HeaderClosed(r) =>
        /\ HeaderHasShape(r)
        /\ LET fs   == ExpectedFields(r)
               last == fs[Len(fs)].text
           IN  Header(r)[hdrEnd[r] - 2] = last[Len(last)]

C1_Witness ==
    /\ pc[1] = "done"
    /\ written[1] = <<"timestamp", "level", "module_path", "target">>

AllTogglesOff ==
    /\ phase = "shared"
    /\ ~envShared.level /\ ~envShared.module_path /\ ~envShared.target

\* C2 as stated: with level, module_path and target disabled a successful
\* render writes exactly the message and the terminator, and no bracket.
C2_Original ==
    \A r \in Renderers : (pc[r] = "done" /\ AllTogglesOff) =>
        /\ buf[r] = Concat(Rec(r).args) \o envShared.suffix
        /\ Count(buf[r], "[") = 0
        /\ Count(buf[r], "]") = 0

\* C2 (amended): with level, module_path and target disabled a successful
\* render writes '[', the timestamp, "] ", the body and the terminator: the
\* bracketed timestamp is the only header text.
C2_TimestampOnlyHeader ==
    \A r \in Renderers : (pc[r] = "done" /\ AllTogglesOff) =>
        buf[r] = <<"[">> \o TimestampText(r) \o <<"]", " ">>
                   \o ExpectedBody(envShared, Concat(Rec(r).args))
                   \o envShared.suffix

C2_Witness ==
    /\ pc[1] = "done" /\ AllTogglesOff
    /\ Rec(1).target # << >> /\ Rec(1).module_path # None

IsScenario(r) ==
    /\ phase = "shared"
    /\ envShared.offset = 28800
    /\ envShared.datetime_fmt = DATETIME_FMT_3F
    /\ envShared.level /\ envShared.target /\ ~envShared.module_path
    /\ envShared.indent = Some(4)
    /\ envShared.suffix = <<"\n">>
    /\ Rec(r).level = "Info"
    /\ Rec(r).target = <<"n", "e", "t">>
    /\ Concat(Rec(r).args) = <<"c", "o", "n", "n", "e", "c", "t", "i", "n", "g", "\n", "r", "e", "t", "r", "y", " ", "1">>

EndsWith(s, t) ==
    /\ Len(s) >= Len(t)
    /\ SubSeq(s, Len(s) - Len(t) + 1, Len(s)) = t

\* C3 as stated: in the scenario the line is the timestamp, ending in
\* " +08:00", immediately followed by "[INFO  net] connecting\n    retry 1\n".
C3_Original ==
    \A r \in Renderers : (pc[r] = "done" /\ IsScenario(r)) =>
        /\ Unstyled(buf[r]) = TimestampText(r) \o <<"[", "I", "N", "F", "O", " ", " ", "n", "e", "t", "]", " ", "c", "o", "n", "n", "e", "c", "t", "i", "n", "g", "\n", " ", " ", " ", " ", "r", "e", "t", "r", "y", " ", "1", "\n">>
        /\ EndsWith(TimestampText(r), <<" ", "+", "0", "8", ":", "0", "0">>)

\* C3 (amended): in the scenario the line is '[', the timestamp ending in
\* " +08:00", one space, then "INFO  net] connecting\n    retry 1\n": the
\* timestamp is the first field inside the brackets.
C3_Scenario ==
    \A r \in Renderers : (pc[r] = "done" /\ IsScenario(r)) =>
        /\ Unstyled(buf[r]) = <<"[">> \o TimestampText(r) \o <<" ", "I", "N", "F", "O", " ", " ", "n", "e", "t", "]", " ", "c", "o", "n", "n", "e", "c", "t", "i", "n", "g", "\n", " ", " ", " ", " ", "r", "e", "t", "r", "y", " ", "1", "\n">>
        /\ EndsWith(TimestampText(r), <<" ", "+", "0", "8", ":", "0", "0">>)
        /\ Len(TimestampText(r)) = 30

C3_Witness ==
    /\ pc[1] = "done" /\ IsScenario(1) /\ styled
    /\ Len(Rec(1).args) = 2

LineFeeds(msg) == Count(msg, "\n")

Body(r) ==
    SubSeq(buf[r], hdrEnd[r] + 1,
           Len(buf[r]) - (IF pc[r] = "done" THEN Len(envShared.suffix) ELSE 0))

\* C4: the body is the message with each of its k line feeds replaced by
\* the terminator and n spaces (k blocks, nothing before the first line,
\* every other character kept in order), however the message is cut into
\* write calls; with indent = None the body is the message itself.
C4_BodyTransformation ==
    \A r \in Renderers : pc[r] \in {"write_suffix", "done"} =>
        LET msg == Concat(Rec(r).args)
        IN  /\ Body(r) = ExpectedBody(envShared, msg)
            /\ envShared.indent = None => Body(r) = msg
            /\ envShared.indent # None =>
                 Len(Body(r)) = Len(msg) - LineFeeds(msg)
                     + LineFeeds(msg) * (Len(envShared.suffix) + envShared.indent[1])

C4_Witness ==
    /\ pc[1] = "done"
    /\ envShared.indent = Some(2)
    /\ envShared.suffix = <<"\r", "\n">>
    /\ Len(Rec(1).args) = 2
    /\ Concat(Rec(1).args) = <<"a", "\n", "\n">>

\* The offset the spec expects new to fix.
ExpectedOffset ==
    IF input.offset_value # None
       /\ -86400 < input.offset_value[1] /\ input.offset_value[1] < 86400
    THEN input.offset_value[1]
    ELSE localAtNew[1]

TimestampWritten(r) ==
    pc[r] \in {"write_level", "write_module_path", "write_target",
               "finish_header", "write_args", "write_suffix", "done"}

\* C5: the policy's offset is the valid explicit offset, else the local
\* offset as it was when new ran; every timestamp rendered later carries
\* that offset, whatever the local offset has become.
C5_OffsetFixed ==
    phase # "start" =>
        /\ env.offset = ExpectedOffset
        /\ \A r \in Renderers : TimestampWritten(r) =>
             LET n == 1 + Len(FormatDateTime(Clock(r), ExpectedOffset, env.datetime_fmt))
             IN  /\ Len(buf[r]) >= n
                 /\ SubSeq(buf[r], n - 5, n) = FormatOffset(ExpectedOffset)

C5_Witness ==
    /\ pc[1] = "done"
    /\ input.offset_value = Some(86400)
    /\ localAtNew = Some(3600)
    /\ local = 7200

ExpectedDigits ==
    IF input.timestamp_precision = None THEN 3
    ELSE CASE input.timestamp_precision[1] = "Seconds" -> 0
           [] input.timestamp_precision[1] = "Millis"  -> 3
           [] input.timestamp_precision[1] = "Micros"  -> 6
           [] input.timestamp_precision[1] = "Nanos"   -> 6

\* The fractional digits a pattern asks for.
PatternDigits(fmt) ==
    IF \E i \in 1..Len(fmt) : fmt[i] = "%.3f" THEN 3
    ELSE IF \E i \in 1..Len(fmt) : fmt[i] = "%.6f" THEN 6
    ELSE 0

IsDigit(c) == \E i \in 1..10 : DigitChars[i] = c

\* C6: the pattern has 0, 3, 6, 6 fractional digits for Seconds, Millis,
\* Micros, Nanos and 3 for an absent precision, ends in the numeric offset,
\* and the rendered timestamp shows that many digits after the seconds.
C6_PrecisionPattern ==
    phase # "start" =>
        /\ PatternDigits(env.datetime_fmt) = ExpectedDigits
        /\ env.datetime_fmt[Len(env.datetime_fmt)] = "%:z"
        /\ \A r \in Renderers : TimestampWritten(r) =>
             LET d == ExpectedDigits
                 b == buf[r]
             IN  /\ IsDigit(b[20])
                 /\ IF d = 0 THEN b[21] = " " /\ b[22] \in {"+", "-"}
                    ELSE /\ b[21] = "."
                         /\ \A i \in 22..(21 + d) : IsDigit(b[i])
                         /\ b[22 + d] = " "
                         /\ b[23 + d] \in {"+", "-"}

C6_Witness ==
    /\ pc[1] = "done"
    /\ input.timestamp_precision = Some("Nanos")
    /\ input.offset_value = None

\* a is b with the text seg inserted somewhere.
InsertedIn(a, b, seg) ==
    \E p \in 0..Len(b) :
        a = SubSeq(b, 1, p) \o seg \o SubSeq(b, p + 1, Len(b))

\* The line with one toggle of the policy switched.
Toggled(r, which) ==
    write([envShared EXCEPT ![which] = ~@], Rec(r), Clock(r), styled)

\* The line r wrote and the same line with `which` switched differ by the
\* field text and one space, or not at all when the record has no such field.
ToggleRemoves(r, which, present, text) ==
    LET on  == IF envShared[which] THEN buf[r] ELSE Toggled(r, which)
        off == IF envShared[which] THEN Toggled(r, which) ELSE buf[r]
    IN  IF present THEN InsertedIn(on, off, <<" ">> \o text) ELSE on = off

\* C7: switching one toggle off removes that field and its space and
\* nothing else; level is written iff enabled, the module path iff enabled
\* and present, the target iff enabled and non-empty.
C7_TogglesIndependent ==
    \A r \in Renderers : pc[r] = "done" =>
        LET names == {written[r][i] : i \in 1..Len(written[r])}
        IN  /\ ToggleRemoves(r, "level", TRUE, LevelText(r))
            /\ ToggleRemoves(r, "module_path", Rec(r).module_path # None,
                             IF Rec(r).module_path # None
                             THEN Rec(r).module_path[1] ELSE << >>)
            /\ ToggleRemoves(r, "target", Rec(r).target # << >>, Rec(r).target)
            /\ ("level" \in names) <=> envShared.level
            /\ ("module_path" \in names) <=>
                   (envShared.module_path /\ Rec(r).module_path # None)
            /\ ("target" \in names) <=>
                   (envShared.target /\ Rec(r).target # << >>)

C7_Witness ==
    /\ pc[1] = "done"
    /\ envShared.level /\ ~envShared.module_path /\ envShared.target
    /\ Rec(1).module_path # None /\ Rec(1).target # << >>

\* C8: once the sink has refused a write the render has failed with that
\* very error, and nothing more reaches the sink for that line.
C8_ErrorAborts ==
    /\ [](\A r \in Renderers :
            /\ sinkErr[r] # "none" => (pc[r] = "failed" /\ result[r] = sinkErr[r])
            /\ pc[r] = "failed" => (sinkErr[r] \in IoErrors /\ result[r] = sinkErr[r]))
    /\ [][\A r \in Renderers :
            (pc[r] = "failed" /\ pc'[r] # "write_timestamp") =>
                (buf'[r] = buf[r] /\ pc'[r] = "failed" /\ result'[r] = result[r])]_vars

C8_Witness ==
    /\ pc[1] = "failed"
    /\ result[1] = "StorageFull"
    /\ written[1] = <<"timestamp", "level">>
    /\ Len(buf[1]) > 0

IsPrefix(a, b) == Len(a) <= Len(b) /\ SubSeq(b, 1, Len(a)) = a

\* C9: rendering never changes the shared policy, every renderer starts
\* with its flag false, and whatever the other threads do each thread's
\* sink holds the beginning of, and in the end exactly, the line that
\* write gives for its own record alone.
C9_SharedPolicyPrivateFlag ==
    phase = "shared" =>
        /\ env = envShared
        /\ \A r \in Renderers :
             /\ pc[r] = "write_timestamp" => ~written_header_value[r]
             /\ TimestampWritten(r) =>
                  IsPrefix(buf[r], write(envShared, Rec(r), Clock(r), styled))
             /\ pc[r] = "done" =>
                  buf[r] = write(envShared, Rec(r), Clock(r), styled)

C9_Witness ==
    /\ pc[1] = "done"
    /\ pc[2] = "write_target"
    /\ record[1] # record[2]

\* C10: the flag never goes back to false within a render, it is true when
\* finish_header runs (so finish_header always writes the closing bracket),
\* and every finished line starts with '[' and the timestamp and has "] "
\* right before the body.
C10_FlagMonotone ==
    /\ [](\A r \in Renderers :
            /\ pc[r] = "finish_header" =>
                 (written_header_value[r] /\ finish_header(written_header_value[r]) # << >>)
            /\ pc[r] = "done" =>
                 /\ IsPrefix(<<"[">> \o TimestampText(r), buf[r])
                 /\ hdrEnd[r] >= 2
                 /\ SubSeq(buf[r], hdrEnd[r] - 1, hdrEnd[r]) = <<"]", " ">>)
    /\ [][\A r \in Renderers :
            (written_header_value[r] /\ pc'[r] # "write_timestamp") =>
                written_header_value'[r]]_vars

C10_Witness ==
    /\ pc[1] = "done" /\ AllTogglesOff
    /\ Rec(1).target = << >> /\ Rec(1).module_path = None

====
